---- MODULE Spec2Model ----
(***************************************************************************)
(* Model of bot/cogs/error_handler.py: ErrorHandler.on_command_error, the  *)
(* command-error dispatcher of the bot.                                    *)
(*                                                                         *)
(* A context is the framework's per-invocation object.  The handler reads  *)
(* ctx.command (.parent, .name, the optional on_error attribute),          *)
(* ctx.channel.id, ctx.invoked_with, ctx.message.author and the optional   *)
(* attribute ctx.invoked_from_error_handler, which it also sets.           *)
(* Every call the handler makes to the outside world (ctx.send,           *)
(* ctx.invoke, response.json(), log.debug/log.warning, setting the         *)
(* attribute) is recorded, in program order, in a sequence of effects.     *)
(* The handler is a coroutine: at every awaited call (ctx.send,            *)
(* ctx.invoke, response.json()) it is suspended, other handler tasks may   *)
(* run, and the call ends either normally or by raising, which ends the    *)
(* handler unless line 55 suppresses the exception.                        *)
(***************************************************************************)
EXTENDS Integers, Sequences, FiniteSets

VARIABLES ctx, marked, lookups, handlers

vars == <<ctx, marked, lookups, handlers>>

(* Bound: cap of the counter lookups (the handler is not dispatched on a  *)
(* context whose counter has reached it).                                *)
MaxLookups == 2

(***************************************************************************)
(* Values                                                                  *)
(***************************************************************************)

(* ctx.command is None *)
None == "None"

(* Channels.verification (bot.constants) and some other channel id. *)
Verification == "verification"

ChannelIds == {Verification, "general"}

(* The contexts the handler is run on.  command/parent hold the names;    *)
(* on_error tells whether the command object carries an on_error          *)
(* attribute (set by the framework's @command.error decorator).           *)
Contexts ==
    { c \in [command : {None, "sub"}, parent : {None, "group"},
             on_error : BOOLEAN, channel : ChannelIds,
             invoked_with : {"faq"}, author : {"user"}] :
        c.command = None => (c.parent = None /\ ~c.on_error) }

(* str(e).  BadArgument, whose message embeds str(e) (line 58), comes    *)
(* with two texts.                                                       *)
ErrTexts == {"oops", "nope"}

TextsOf(cls) == IF cls = "BadArgument" THEN ErrTexts ELSE {"oops"}

(* Status codes of the API response: both sides of every comparison of    *)
(* lines 74-80.                                                           *)
Statuses == {400, 404, 499, 500, 599, 600}

(* response.code of a response object that has no such attribute. *)
NoCode == "<no attribute>"

(* str(response.code) where the attribute exists: a value of its own,     *)
(* not derived from response.status.                                      *)
Codes == {"418"}

(* e.original.response: .status (lines 74-80), the decoded body that      *)
(* .json() gives (line 77) and .code (line 85).                           *)
Responses == [status : Statuses, code : Codes \cup {NoCode}, content : {"body"}]

(* bot.api.ResponseCodeError instances. *)
ResponseCodeErrors ==
    [cls : {"ResponseCodeError"}, text : {"api"}, response : Responses]

(* Errors a command body can raise that are not ResponseCodeError. *)
BodyErrors == [cls : {"RuntimeError"}, text : {"crash"}]

(* What a failing ctx.send and a failing response.json() raise. *)
SendErrors == [cls : {"HTTPException"}, text : {"send failed"}]

JsonErrors == [cls : {"ContentTypeError"}, text : {"not json"}]

PlainClasses ==
    {"CommandNotFound", "BadArgument", "MissingRequiredArgument", "UserInputError", "NoPrivateMessage", "CheckFailure",
     "CommandOnCooldown", "DisabledCommand", "CommandError"}

PermClasses == {"BotMissingPermissions", "MissingPermissions"}

(* The CommandError values handed to on_command_error. *)
Errors ==
    {x \in [cls : PlainClasses, text : ErrTexts] : x.text \in TextsOf(x.cls)}
    \cup [cls : PermClasses, text : {"oops"}, missing_perms : {"manage_messages"}]
    \cup [cls : {"CommandInvokeError"}, text : {"oops"}, original : ResponseCodeErrors]
    \cup [cls : {"CommandInvokeError"}, text : {"oops"}, original : BodyErrors]

(***************************************************************************)
(* Exception classes: the imports of lines 4-19 and their base classes.    *)
(***************************************************************************)
Base(cls) ==
    CASE cls \in {"BadArgument", "MissingRequiredArgument"} -> "UserInputError"
      [] cls \in {"NoPrivateMessage", "BotMissingPermissions",
                  "MissingPermissions"} -> "CheckFailure"
      [] cls \in {"UserInputError", "CheckFailure", "CommandNotFound",
                  "CommandOnCooldown", "DisabledCommand",
                  "CommandInvokeError"} -> "CommandError"
      [] cls \in {"CommandError", "RuntimeError", "ValueError", "AttributeError",
                  "HTTPException", "ContentTypeError"} -> "Exception"
      [] cls = "ResponseCodeError" -> "ValueError"
      [] OTHER -> "object"

RECURSIVE IsSubclass(_, _)
IsSubclass(cls, target) ==
    IF cls = target THEN TRUE
    ELSE IF cls = "object" THEN FALSE
    ELSE IsSubclass(Base(cls), target)

isinstance(e, target) == IsSubclass(e.cls, target)

(***************************************************************************)
(* Effects and outcomes                                                    *)
(***************************************************************************)
Send(text) == [op |-> "send", text |-> text]

Invoke(args) == [op |-> "invoke", args |-> args]

Log(level, text) == [op |-> "log", level |-> level, text |-> text]

SetAttr == [op |-> "setattr", name |-> "invoked_from_error_handler"]

Json == [op |-> "json"]

(* The calls the handler awaits. *)
Awaited == {"send", "invoke", "json"}

Return == [kind |-> "return"]

Raise(exc) == [kind |-> "raise", exc |-> exc]

Await == [kind |-> "await"]

(* The handler's run from line 49 on, given that no awaited call raises:  *)
(* the calls it makes, in order, and how it ends.                         *)
Result(effects, outcome) == [effects |-> effects, outcome |-> outcome]

(* str(command): the qualified name of the command, "None" for None. *)
CommandStr(c) ==
    IF c.command # None /\ c.parent # None THEN <<c.parent, " ", c.command>>
    ELSE <<c.command>>

(***************************************************************************)
(* on_command_error, lines 31-93                                           *)
(***************************************************************************)

(* Mutant of help_command: the parent's name is left out. *)
help_command_NoParent(c) ==
    IF c.command # None THEN <<"help", c.command>> ELSE <<"help">>

(* Lines 32-43: the arguments of the help invocation. *)
help_command(c) ==
    IF c.parent # None /\ c.command # None THEN <<"help", c.parent, c.command>>
    ELSE IF c.command # None THEN <<"help", c.command>>
    ELSE <<"help">>

(* Mutant of has_local_handler: the check of line 45 is missing. *)
has_local_handler_Never(c) == FALSE

(* Line 45: hasattr(command, "on_error"); None has no such attribute. *)
has_local_handler(c) == c.command # None /\ c.on_error

(* Mutant of Classify: line 49 does not test the mark. *)
Classify_IgnoresMark(e, hasMark) ==
    IF isinstance(e, "CommandNotFound") THEN "not_found"
    ELSE IF isinstance(e, "BadArgument") THEN "bad_argument"
    ELSE IF isinstance(e, "UserInputError") THEN "user_input"
    ELSE IF isinstance(e, "NoPrivateMessage") THEN "no_private_message"
    ELSE IF isinstance(e, "BotMissingPermissions") THEN "bot_missing_permissions"
    ELSE IF isinstance(e, "MissingPermissions") THEN "missing_permissions"
    ELSE IF \/ isinstance(e, "CheckFailure")
            \/ isinstance(e, "CommandOnCooldown")
            \/ isinstance(e, "DisabledCommand") THEN "check"
    ELSE IF isinstance(e, "CommandInvokeError") THEN "invoke_error"
    ELSE "other"

(* Mutant of Classify: UserInputError is tested before BadArgument. *)
Classify_UserInputFirst(e, hasMark) ==
    IF isinstance(e, "CommandNotFound") /\ ~hasMark THEN "not_found"
    ELSE IF isinstance(e, "UserInputError") THEN "user_input"
    ELSE IF isinstance(e, "BadArgument") THEN "bad_argument"
    ELSE IF isinstance(e, "NoPrivateMessage") THEN "no_private_message"
    ELSE IF isinstance(e, "BotMissingPermissions") THEN "bot_missing_permissions"
    ELSE IF isinstance(e, "MissingPermissions") THEN "missing_permissions"
    ELSE IF \/ isinstance(e, "CheckFailure")
            \/ isinstance(e, "CommandOnCooldown")
            \/ isinstance(e, "DisabledCommand") THEN "check"
    ELSE IF isinstance(e, "CommandInvokeError") THEN "invoke_error"
    ELSE "other"

(* Mutant of Classify: the general CheckFailure arm comes before the arms *)
(* of its subclasses.                                                     *)
Classify_CheckFirst(e, hasMark) ==
    IF isinstance(e, "CommandNotFound") /\ ~hasMark THEN "not_found"
    ELSE IF isinstance(e, "BadArgument") THEN "bad_argument"
    ELSE IF isinstance(e, "UserInputError") THEN "user_input"
    ELSE IF \/ isinstance(e, "CheckFailure")
            \/ isinstance(e, "CommandOnCooldown")
            \/ isinstance(e, "DisabledCommand") THEN "check"
    ELSE IF isinstance(e, "NoPrivateMessage") THEN "no_private_message"
    ELSE IF isinstance(e, "BotMissingPermissions") THEN "bot_missing_permissions"
    ELSE IF isinstance(e, "MissingPermissions") THEN "missing_permissions"
    ELSE IF isinstance(e, "CommandInvokeError") THEN "invoke_error"
    ELSE "other"

(* Lines 49-93: which arm of the if/elif chain runs, by first match.      *)
(* hasMark is hasattr(ctx, "invoked_from_error_handler").                 *)
Classify(e, hasMark) ==
    IF isinstance(e, "CommandNotFound") /\ ~hasMark THEN "not_found"
    ELSE IF isinstance(e, "BadArgument") THEN "bad_argument"
    ELSE IF isinstance(e, "UserInputError") THEN "user_input"
    ELSE IF isinstance(e, "NoPrivateMessage") THEN "no_private_message"
    ELSE IF isinstance(e, "BotMissingPermissions") THEN "bot_missing_permissions"
    ELSE IF isinstance(e, "MissingPermissions") THEN "missing_permissions"
    ELSE IF \/ isinstance(e, "CheckFailure")
            \/ isinstance(e, "CommandOnCooldown")
            \/ isinstance(e, "DisabledCommand") THEN "check"
    ELSE IF isinstance(e, "CommandInvokeError") THEN "invoke_error"
    ELSE "other"

(* Mutant of not_found_response: the channel test of line 50 is missing. *)
not_found_response_NoChannelCheck(c) ==
    Result(<<SetAttr, Invoke(<<"tags get", "tag_name", c.invoked_with>>)>>, Return)

(* Lines 50-56: the body of the first arm; line 56 returns what the       *)
(* lookup returns.  In the verification channel the arm does nothing and  *)
(* the chain is left, so the handler returns.                             *)
not_found_response(c) ==
    IF c.channel # Verification
    THEN Result(<<SetAttr, Invoke(<<"tags get", "tag_name", c.invoked_with>>)>>,
                Return)
    ELSE Result(<< >>, Return)

(* Mutant of after_lookup: no contextlib.suppress around the lookup. *)
after_lookup_NoSuppress(res) ==
    IF res.kind = "raise" THEN Raise(res.exc) ELSE Return

(* Lines 55-56: how the handler ends once the awaited lookup has ended.   *)
(* res is [kind |-> "ok"] or [kind |-> "raise", exc |-> X].               *)
after_lookup(res) ==
    IF res.kind = "raise" /\ ~isinstance(res.exc, "ResponseCodeError")
    THEN Raise(res.exc)
    ELSE Return

(* Mutant of api_error_response: line 76 is "if", not "elif", so a 404   *)
(* also runs the final else of the chain that starts there.              *)
api_error_response_IfNotElif(e) ==
    LET response == e.original.response
        unexpected == Send(<<"Got an unexpected status code from the API (",
                             response.code, ").">>)
    IN
    IF response.status = 404
    THEN IF response.code # NoCode
         THEN Result(<<Send(<<"There does not seem to be anything matching your query.">>),
                       unexpected>>, Return)
         ELSE Result(<<Send(<<"There does not seem to be anything matching your query.">>)>>,
                     Raise([cls |-> "AttributeError", text |-> "code"]))
    ELSE IF response.status = 400
    THEN Result(<<Json,
                  Log("debug", <<"API gave bad request on command. Response: %r.",
                                 response.content>>),
                  Send(<<"According to the API, your request is malformed.">>)>>,
                Return)
    ELSE IF 500 <= response.status /\ response.status < 600
    THEN Result(<<Send(<<"Sorry, there seems to be an internal issue with the API.">>)>>,
                Return)
    ELSE IF response.code # NoCode
    THEN Result(<<unexpected>>, Return)
    ELSE Result(<< >>, Raise([cls |-> "AttributeError", text |-> "code"]))

(* Lines 73-86: CommandInvokeError wrapping a ResponseCodeError.  Line 85 *)
(* formats response.code, not response.status; on a response object      *)
(* without that attribute the read raises AttributeError before ctx.send  *)
(* is called.  Line 77 awaits response.json() before the log call.  The   *)
(* grave                                                                  *)
(* accents (code markup) of the texts of lines 85 and 89 are left out of  *)
(* the strings here and in invoke_error_response: the TLA+ lexer does not *)
(* accept them inside a string.                                           *)
api_error_response(e) ==
    LET response == e.original.response IN
    IF response.status = 404
    THEN Result(<<Send(<<"There does not seem to be anything matching your query.">>)>>,
                Return)
    ELSE IF response.status = 400
    THEN Result(<<Json,
                  Log("debug", <<"API gave bad request on command. Response: %r.",
                                 response.content>>),
                  Send(<<"According to the API, your request is malformed.">>)>>,
                Return)
    ELSE IF 500 <= response.status /\ response.status < 600
    THEN Result(<<Send(<<"Sorry, there seems to be an internal issue with the API.">>)>>,
                Return)
    ELSE IF response.code # NoCode
    THEN Result(<<Send(<<"Got an unexpected status code from the API (",
                         response.code, ").">>)>>,
                Return)
    ELSE Result(<< >>, Raise([cls |-> "AttributeError", text |-> "code"]))

(* Mutant of invoke_error_response: line 91 raises e, not e.original. *)
invoke_error_response_RaisesWrapper(e) ==
    IF isinstance(e.original, "ResponseCodeError")
    THEN api_error_response(e)
    ELSE Result(<<Send(<<"Sorry, an unexpected error occurred. Please let us know!\n\n",
                         e.text, "">>)>>,
                Raise(e))

(* Lines 72-91. *)
invoke_error_response(e) ==
    IF isinstance(e.original, "ResponseCodeError")
    THEN api_error_response(e)
    ELSE Result(<<Send(<<"Sorry, an unexpected error occurred. Please let us know!\n\n",
                         e.text, "">>)>>,
                Raise(e.original))

(* Lines 57-71: the arms that only send, invoke help and log. *)
simple_response(branch, c, e) ==
    CASE branch = "bad_argument" ->
           <<Send(<<"Bad argument: ", e.text, "\n">>), Invoke(help_command(c))>>
      [] branch = "user_input" ->
           <<Send(<<"Something about your input seems off. Check the arguments:">>),
             Invoke(help_command(c))>>
      [] branch = "no_private_message" ->
           <<Send(<<"Sorry, this command can't be used in a private message!">>)>>
      [] branch = "bot_missing_permissions" ->
           <<Send(<<"Sorry, it looks like I don't have the permissions I need to do that.">>),
             Log("warning", <<"The bot is missing permissions to execute command ">>
                            \o CommandStr(c) \o <<": ", e.missing_perms>>)>>
      [] branch = "missing_permissions" ->
           <<Log("debug", <<c.author, " is missing permissions to invoke command ">>
                          \o CommandStr(c) \o <<": ", e.missing_perms>>)>>
      [] branch = "check" ->
           <<Log("debug", <<"Command ">> \o CommandStr(c) \o <<" invoked by ", c.author,
                            " with error ", e.cls, ": ", e.text>>)>>

(* Lines 31-93: the calls the handler makes, in order, and how it ends,   *)
(* when no awaited call raises.  The mark is read once, on line 49,       *)
(* before the first await.                                                *)
on_command_error(c, hasMark, e) ==
    IF has_local_handler(c)
    THEN Result(<<Log("debug", <<"Command ">> \o CommandStr(c)
                                \o <<" has a local error handler, ignoring.">>)>>,
                Return)
    ELSE LET branch == Classify(e, hasMark) IN
         IF branch = "not_found" THEN not_found_response(c)
         ELSE IF branch = "invoke_error" THEN invoke_error_response(e)
         ELSE IF branch = "other" THEN Result(<< >>, Raise(e))
         ELSE Result(simple_response(branch, c, e), Return)

(***************************************************************************)
(* State machine                                                           *)
(*   ctx          the context the handler tasks of this behaviour are run  *)
(*                on (handlers on different contexts share no state)       *)
(*   marked       hasattr(ctx, "invoked_from_error_handler")               *)
(*   lookups      how many times the handler has invoked "tags get" on ctx *)
(*   handlers[t]  the handler task t: its error, whether ctx was marked    *)
(*                when it started, the number n of calls it has made, the  *)
(*                result of its latest awaited call, and its outcome       *)
(*                ("await" while it is suspended in its n-th call)         *)
(***************************************************************************)

(* The tasks that can run the handler at the same time. *)
Tasks == {1, 2}

NoResult == [kind |-> "none"]

Ok == [kind |-> "ok"]

Idle ==
    [e |-> [cls |-> "None", text |-> ""], was_marked |-> FALSE, n |-> 0,
     result |-> NoResult, outcome |-> [kind |-> "none"]]

IsLookup(eff) == eff.op = "invoke" /\ eff.args[1] = "tags get"

(* What an awaited call can end with. *)
CallResults(call) ==
    IF IsLookup(call)
    THEN {Ok} \cup {Raise(x) : x \in {r \in ResponseCodeErrors :
                                        r.response.status = 404 /\ r.response.code = NoCode}}
              \cup {Raise(x) : x \in BodyErrors}
    ELSE IF call.op = "invoke" THEN {Ok} \cup {Raise(x) : x \in BodyErrors}
    ELSE IF call.op = "send" THEN {Ok} \cup {Raise(x) : x \in SendErrors}
    ELSE {Ok} \cup {Raise(x) : x \in JsonErrors}

(* The handler's calls and end, as fixed when task h passed line 49. *)
Plan(h) == on_command_error(ctx, h.was_marked, h.e)

(* The calls task h has made so far. *)
Effects(h) == IF h.outcome.kind = "none" THEN << >> ELSE SubSeq(Plan(h).effects, 1, h.n)

(* The handler runs on from its n-th call: to its next awaited call, or   *)
(* to its end.                                                            *)
NextAwait(effects, n) ==
    LET later == {i \in (n + 1)..Len(effects) : effects[i].op \in Awaited}
    IN IF later = {} THEN 0 ELSE CHOOSE i \in later : \A j \in later : i <= j

RunOn(h, plan) ==
    LET k == NextAwait(plan.effects, h.n)
    IN [h EXCEPT !.n = IF k = 0 THEN Len(plan.effects) ELSE k,
                 !.outcome = IF k = 0 THEN plan.outcome ELSE Await]

CountOp(effects, op) == Cardinality({i \in 1..Len(effects) : effects[i].op = op})

CountLookups(effects) == Cardinality({i \in 1..Len(effects) : IsLookup(effects[i])})

Suspended(h) == h.outcome.kind = "await"

Init ==
    /\ ctx \in Contexts
    /\ marked = FALSE
    /\ lookups = 0
    /\ handlers = [t \in Tasks |-> Idle]

(* The synchronous effects of the calls h.n + 1 .. g.n on the context. *)
Advance(t, h, g, plan) ==
    LET made == SubSeq(plan.effects, h.n + 1, g.n)
    IN /\ marked' = (marked \/ CountOp(made, "setattr") > 0)
       /\ lookups' = lookups + CountLookups(made)
       /\ handlers' = [handlers EXCEPT ![t] = g]

(* The framework dispatches a command error on ctx to the handler, in a   *)
(* new task; it runs to its first awaited call or to its end.  (Tasks are *)
(* interchangeable: the first one that is not suspended is taken.)        *)
OnCommandError(t, e) ==
    /\ ~Suspended(handlers[t])
    /\ \A u \in Tasks : u < t => Suspended(handlers[u])
    /\ lookups < MaxLookups
    /\ LET h == [Idle EXCEPT !.e = e, !.was_marked = marked]
           plan == on_command_error(ctx, marked, e)
       IN Advance(t, h, RunOn(h, plan), plan)
    /\ UNCHANGED ctx

(* The call a suspended task awaits ends.  When it raises, the handler    *)
(* raises, but for the lookup under contextlib.suppress; otherwise the    *)
(* handler runs on.                                                       *)
CallReturns(t, res) ==
    LET h == handlers[t]
        plan == Plan(h)
        call == plan.effects[h.n]
    IN /\ Suspended(h)
       /\ res \in CallResults(call)
       /\ IF res.kind = "raise"
          THEN Advance(t, h, [h EXCEPT !.result = res,
                                       !.outcome = IF IsLookup(call) THEN after_lookup(res)
                                                   ELSE Raise(res.exc)], plan)
          ELSE Advance(t, h, RunOn([h EXCEPT !.result = res], plan), plan)
       /\ UNCHANGED ctx

AllResults ==
    {Ok} \cup {Raise(x) : x \in ResponseCodeErrors \cup BodyErrors \cup SendErrors \cup JsonErrors}

Next ==
    \/ \E t \in Tasks, e \in Errors : OnCommandError(t, e)
    \/ \E t \in Tasks, res \in AllResults : CallReturns(t, res)

Spec == Init /\ [][Next]_vars

(***************************************************************************)
(* Properties.  They are stated of every handler task h.                   *)
(***************************************************************************)
IsSend(eff) == eff.op = "send"

IsInvoke(eff) == eff.op = "invoke"

IsLog(eff) == eff.op = "log"

IsSetAttr(eff) == eff.op = "setattr"

HasOwnErrorHook == ctx.command # None /\ ctx.on_error

(* Task h got past the check of line 45 with an error of class cls (or of *)
(* a subclass).                                                           *)
Classified(h, cls) == ~HasOwnErrorHook /\ isinstance(h.e, cls)

Finished(h) == h.outcome.kind \in {"return", "raise"}

(* Task h has ended and none of the calls it awaited raised. *)
Completed(h) == Finished(h) /\ h.result.kind # "raise"

(* C1: on one context the handler invokes "tags get" at most once: a      *)
(* context whose lookup was invoked is marked, the mark is set before the *)
(* lookup is invoked, a CommandNotFound on a marked context invokes no    *)
(* lookup, and a mark once set stays set, also after the lookup failed.   *)
C1_LookupAtMostOnce ==
    /\ [](lookups <= 1 /\ (lookups = 1 => marked))
    /\ [](\A t \in Tasks : \A i \in 1..Len(Effects(handlers[t])) :
            IsLookup(Effects(handlers[t])[i]) =>
                \E j \in 1..(i - 1) : IsSetAttr(Effects(handlers[t])[j]))
    /\ [](\A t \in Tasks :
            (isinstance(handlers[t].e, "CommandNotFound") /\ handlers[t].was_marked)
            => CountLookups(Effects(handlers[t])) = 0)
    /\ [](\A t \in Tasks :
            (CountLookups(Effects(handlers[t])) > 0 /\ handlers[t].result.kind = "raise")
            => marked)
    /\ [][marked => marked']_vars

(* C1 witness: a CommandNotFound arrives on the context when it is marked *)
(* and its one lookup has failed; it is raised again, without a lookup.   *)
C1_Witness ==
    \E t, u \in Tasks :
        /\ isinstance(handlers[t].e, "CommandNotFound")
        /\ handlers[t].was_marked
        /\ handlers[t].outcome = Raise(handlers[t].e)
        /\ CountLookups(Effects(handlers[u])) = 1
        /\ handlers[u].result.kind = "raise"
        /\ lookups = 1

(* C2 as claimed: a CommandNotFound on a marked context, or in the        *)
(* verification channel, is raised again unchanged, and nothing is sent   *)
(* or invoked.                                                            *)
C2_Original ==
    \A t \in Tasks :
        LET h == handlers[t] IN
        (/\ Classified(h, "CommandNotFound")
         /\ (h.was_marked \/ ctx.channel = Verification))
        => (h.outcome = Raise(h.e) /\ Effects(h) = << >>)

(* C2 amended: a CommandNotFound on a marked context is raised again      *)
(* unchanged with nothing sent or invoked; a CommandNotFound on an        *)
(* unmarked context in the verification channel is dropped: the handler   *)
(* returns, having sent, invoked, marked and raised nothing.              *)
C2_NotFoundSideConditions ==
    \A t \in Tasks :
        LET h == handlers[t] IN
        /\ (Classified(h, "CommandNotFound") /\ h.was_marked)
            => (h.outcome = Raise(h.e) /\ Effects(h) = << >>)
        /\ (/\ Classified(h, "CommandNotFound")
            /\ ~h.was_marked
            /\ ctx.channel = Verification)
            => (/\ h.outcome = Return
                /\ Effects(h) = << >>
                /\ ~marked
                /\ lookups = 0)

(* C2 witness: an unmarked context in the verification channel got a      *)
(* CommandNotFound.                                                       *)
C2_Witness ==
    \E t \in Tasks :
        /\ Classified(handlers[t], "CommandNotFound")
        /\ ~handlers[t].was_marked
        /\ ctx.channel = Verification
        /\ handlers[t].outcome = Return

StatusClass(status) ==
    IF status = 404 THEN "404"
    ELSE IF status = 400 THEN "400"
    ELSE IF 500 <= status /\ status < 600 THEN "5xx"
    ELSE "other"

IsApiError(e) ==
    isinstance(e, "CommandInvokeError") /\ isinstance(e.original, "ResponseCodeError")

(* C3 as claimed, for a handler none of whose awaited calls raised: for a *)
(* CommandInvokeError wrapping a ResponseCodeError, whatever the status,  *)
(* the handler sends exactly one message and returns; for status 400 it   *)
(* logs the decoded body before it sends; two statuses of different       *)
(* classes (404, 400, 5xx, other) get different messages.                 *)
C3_Original ==
    \A t \in Tasks :
        LET h == handlers[t]
            eff == Effects(h)
        IN
        (~HasOwnErrorHook /\ IsApiError(h.e) /\ Completed(h))
        => /\ h.outcome = Return
           /\ CountOp(eff, "send") = 1
           /\ IsSend(eff[Len(eff)])
           /\ h.e.original.response.status = 400
                => /\ Len(eff) = 3
                   /\ eff[2] = Log("debug", <<"API gave bad request on command. Response: %r.",
                                              h.e.original.response.content>>)
           /\ h.e.original.response.status # 400 => Len(eff) = 1
           /\ \A x \in Errors :
                (/\ IsApiError(x)
                 /\ StatusClass(x.original.response.status)
                      # StatusClass(h.e.original.response.status))
                => \A i \in 1..Len(api_error_response(x).effects) :
                     api_error_response(x).effects[i] # eff[Len(eff)]

(* C4: when the command has its own on_error, the handler sends nothing,  *)
(* invokes no command, does not mark the context and raises nothing, for  *)
(* every kind of error.                                                   *)
C4_LocalHandlerDefers ==
    \A t \in Tasks :
        LET h == handlers[t] IN
        (HasOwnErrorHook /\ h.outcome.kind # "none")
        => /\ h.outcome = Return
           /\ CountOp(Effects(h), "send") = 0
           /\ CountOp(Effects(h), "invoke") = 0
           /\ CountOp(Effects(h), "setattr") = 0
           /\ ~marked

(* C4 witness: a CommandNotFound outside the verification channel on a    *)
(* command with on_error.                                                 *)
C4_Witness ==
    \E t \in Tasks :
        /\ HasOwnErrorHook
        /\ isinstance(handlers[t].e, "CommandNotFound")
        /\ ctx.channel # Verification
        /\ Finished(handlers[t])

(* C5: a ResponseCodeError raised by the invoked lookup is suppressed:    *)
(* the handler returns, having sent nothing; any other exception of the   *)
(* lookup is raised by the handler.                                       *)
C5_LookupErrorSuppressed ==
    \A t \in Tasks :
        LET h == handlers[t] IN
        (CountLookups(Effects(h)) > 0 /\ h.result.kind = "raise")
        => IF isinstance(h.result.exc, "ResponseCodeError")
           THEN h.outcome = Return /\ CountOp(Effects(h), "send") = 0
           ELSE h.outcome = Raise(h.result.exc)

(* C5 witness: the lookup of a CommandNotFound raised ResponseCodeError.  *)
C5_Witness ==
    \E t \in Tasks :
        /\ isinstance(handlers[t].e, "CommandNotFound")
        /\ handlers[t].result.kind = "raise"
        /\ isinstance(handlers[t].result.exc, "ResponseCodeError")
        /\ handlers[t].outcome = Return

(* C6: a BadArgument gets "Bad argument: <text>" and then a help          *)
(* invocation, never the generic message; a UserInputError that is no     *)
(* BadArgument gets the generic message and then a help invocation.  The  *)
(* calls of a handler are, in this order, the message and the help        *)
(* invocation; a handler whose awaited calls did not raise has made both  *)
(* and returns.                                                           *)
C6_FirstMatch ==
    \A t \in Tasks :
        LET h == handlers[t]
            eff == Effects(h)
        IN
        /\ Classified(h, "BadArgument")
            => /\ Len(eff) \in {1, 2}
               /\ eff[1] = Send(<<"Bad argument: ", h.e.text, "\n">>)
               /\ Len(eff) = 2 => (IsInvoke(eff[2]) /\ eff[2].args[1] = "help")
               /\ Completed(h) => (Len(eff) = 2 /\ h.outcome = Return)
        /\ (Classified(h, "UserInputError") /\ ~isinstance(h.e, "BadArgument"))
            => /\ Len(eff) \in {1, 2}
               /\ eff[1] = Send(<<"Something about your input seems off. Check the arguments:">>)
               /\ Len(eff) = 2 => (IsInvoke(eff[2]) /\ eff[2].args[1] = "help")
               /\ Completed(h) => (Len(eff) = 2 /\ h.outcome = Return)

(* C6 witness: a BadArgument with the second error text was handled to    *)
(* the end.                                                               *)
C6_Witness ==
    \E t \in Tasks :
        /\ Classified(handlers[t], "BadArgument")
        /\ handlers[t].e.text = "nope"
        /\ Completed(handlers[t])

(* C7: for a CommandInvokeError whose original is no ResponseCodeError    *)
(* the handler sends the "unexpected error" message with the error text   *)
(* and, once the send is over, raises e.original, not e.                  *)
C7_UnexpectedError ==
    \A t \in Tasks :
        LET h == handlers[t] IN
        (Classified(h, "CommandInvokeError") /\ ~IsApiError(h.e))
        => /\ Effects(h) =
                <<Send(<<"Sorry, an unexpected error occurred. Please let us know!\n\n",
                         h.e.text, "">>)>>
           /\ h.outcome # Raise(h.e)
           /\ Completed(h) => h.outcome = Raise(h.e.original)

(* C7 witness: a CommandInvokeError wrapping a RuntimeError was handled   *)
(* to the end.                                                            *)
C7_Witness ==
    \E t \in Tasks :
        /\ Classified(handlers[t], "CommandInvokeError")
        /\ handlers[t].e.original.cls = "RuntimeError"
        /\ Completed(handlers[t])

(* C8: one invocation of the handler sends at most one message, writes at *)
(* most one log line and invokes at most one command (it ends in at most  *)
(* one raise: the outcome is a single return or raise).                   *)
C8_BoundedEffects ==
    \A t \in Tasks :
        /\ CountOp(Effects(handlers[t]), "send") <= 1
        /\ CountOp(Effects(handlers[t]), "log") <= 1
        /\ CountOp(Effects(handlers[t]), "invoke") <= 1

(* C8 witness: an invocation that wrote one log line and sent one message *)
(* for a 400 response.                                                    *)
C8_Witness ==
    \E t \in Tasks :
        /\ IsApiError(handlers[t].e)
        /\ handlers[t].e.original.response.status = 400
        /\ CountOp(Effects(handlers[t]), "send") = 1
        /\ CountOp(Effects(handlers[t]), "log") = 1
        /\ Completed(handlers[t])

(* C9: MissingPermissions, CheckFailure, CommandOnCooldown and            *)
(* DisabledCommand give one debug log line and nothing else;              *)
(* BotMissingPermissions gives the apology and then one warning log line; *)
(* NoPrivateMessage gives the notice only; the handler raises none of     *)
(* them again.                                                            *)
C9_PermissionAndCheckKinds ==
    \A t \in Tasks :
        LET h == handlers[t]
            eff == Effects(h)
        IN
        /\ (/\ ~HasOwnErrorHook
            /\ h.e.cls \in {"MissingPermissions", "CheckFailure",
                            "CommandOnCooldown", "DisabledCommand"})
            => /\ Len(eff) = 1
               /\ IsLog(eff[1]) /\ eff[1].level = "debug"
               /\ h.outcome = Return
        /\ (~HasOwnErrorHook /\ h.e.cls = "BotMissingPermissions")
            => /\ Len(eff) \in {1, 2}
               /\ eff[1] =
                    Send(<<"Sorry, it looks like I don't have the permissions I need to do that.">>)
               /\ Len(eff) = 2 => (IsLog(eff[2]) /\ eff[2].level = "warning")
               /\ Completed(h) => (Len(eff) = 2 /\ h.outcome = Return)
               /\ h.outcome # Raise(h.e)
        /\ (~HasOwnErrorHook /\ h.e.cls = "NoPrivateMessage")
            => /\ eff = <<Send(<<"Sorry, this command can't be used in a private message!">>)>>
               /\ Completed(h) => h.outcome = Return
               /\ h.outcome # Raise(h.e)

(* C9 witness: a NoPrivateMessage, a subclass of CheckFailure, was        *)
(* handled to the end.                                                    *)
C9_Witness ==
    \E t \in Tasks :
        /\ ~HasOwnErrorHook
        /\ handlers[t].e.cls = "NoPrivateMessage"
        /\ Completed(handlers[t])

(* C10: the help invocation of the BadArgument and UserInputError arms is *)
(* help with the parent's name and the command's name when the command    *)
(* has a parent, with the command's name when it has none, and with no    *)
(* name when the context has no command.                                  *)
C10_HelpTarget ==
    \A t \in Tasks :
        LET h == handlers[t]
            eff == Effects(h)
        IN
        Classified(h, "UserInputError")
        => /\ Len(eff) >= 2
             => eff[2] = Invoke(IF ctx.command = None THEN <<"help">>
                                ELSE IF ctx.parent = None THEN <<"help", ctx.command>>
                                ELSE <<"help", ctx.parent, ctx.command>>)
           /\ Completed(h) => Len(eff) = 2

(* C10 witness: the help invocation of a UserInputError on a subcommand   *)
(* of a group has been made and is over.                                  *)
C10_Witness ==
    \E t \in Tasks :
        /\ Classified(handlers[t], "UserInputError")
        /\ ctx.parent # None
        /\ Completed(handlers[t])

(* Two handler tasks are suspended at the same time, one of them between  *)
(* its message and its help invocation.                                   *)
InterleavedHandlers ==
    \E t, u \in Tasks :
        /\ t # u
        /\ isinstance(handlers[t].e, "BadArgument")
        /\ Suspended(handlers[t]) /\ handlers[t].n = 1
        /\ isinstance(handlers[u].e, "CommandNotFound")
        /\ Suspended(handlers[u])

====
